---- MODULE Spec2Model ----
(***************************************************************************)
(* Model of load_data() of app.py (the GPT Hedge Fund dashboard): the      *)
(* three sources (trade_history.xlsx, stock_investment_reports.csv,        *)
(* recommendations.csv), the fallbacks taken when a source is absent, the  *)
(* left merge of reports with recommendations, and the st.cache_data       *)
(* memoisation of the module-level call.                                   *)
(*                                                                         *)
(* Encodings.                                                              *)
(*  - A Weight is in hundredths (0.2 is 20, 0.6 is 60, 1.0 is 100) and a   *)
(*    cell of a numeric column is <<>> (NaN) or <<w>>.                     *)
(*  - An instant is an integer number of ticks, TicksPerDay ticks a day    *)
(*    (datetime.today() has a time of day, so two runs of one day differ). *)
(*  - A PortfolioValue is [coeff, exp], denoting coeff * 1.005^exp: the    *)
(*    exact value of 100000 * 1.005^59 is out of TLC's integer range.      *)
(***************************************************************************)
EXTENDS Integers, Sequences, FiniteSets, TLC

VARIABLES
    thFile,     \* trade_history.xlsx on disk
    repFile,    \* stock_investment_reports.csv on disk
    recFile,    \* recommendations.csv on disk
    now,        \* the clock, datetime.today()
    cache,      \* st.cache_data's entry for load_data()
    out,        \* the outcome of the latest call of load_data()
    prev,       \* the outcome of the call before it
    didRead     \* whether the latest call read the sources

vars == <<thFile, repFile, recFile, now, cache, out, prev, didRead>>

----------------------------------------------------------------------------
\* Bounds of the model.

MaxRecRows == 2     \* rows of a recommendations.csv
MaxRepRows == 2     \* rows of a stock_investment_reports.csv
MaxNow == 2         \* the clock stops here

\* Program constants.

Periods == 60           \* periods=60, np.arange(60)
DaysBack == 60          \* timedelta(days=60)
StartValue == 100000    \* 100000 * (1 + 0.005) ** ...
DemoRows == 5           \* five demo symbols, ["..."] * 5
EqualWeight == 20       \* 0.2, in hundredths
TicksPerDay == 2        \* granularity of the clock below one day

----------------------------------------------------------------------------
\* Cells, rows and files.

NaN == <<>>
Num(w) == <<w>>
IsNull(c) == c = NaN

Absent == [kind |-> "absent", rows |-> <<>>]
Table(rows) == [kind |-> "table", rows |-> rows]
\* A trade_history.xlsx that is no zip archive, and one that is a zip archive
\* but no valid workbook.
NotZip == [kind |-> "notzip", rows |-> <<>>]
BadWorkbook == [kind |-> "badworkbook", rows |-> <<>>]

SeqsUpTo(S, n) == UNION {[1..k -> S] : k \in 1..n}

DemoSymbols == <<"AAPL", "MSFT", "NVDA", "AMZN", "META">>
DemoScores == <<92, 88, 85, 83, 81>>
DemoReportText == "Strong momentum and AI-driven growth."

\* Inputs: the contents a source file can have.
RecSymbols == {"AAPL", "MSFT"}
RepSymbols == {"AAPL", "TSLA"}
WeightCells == {NaN, Num(-10), Num(40), Num(60)}

RecRows == [Symbol : RecSymbols, Weight : WeightCells]
RepRows == [Symbol : RepSymbols, InvScore : {90}, InvReport : {"report"}]
UserTrades == <<[Date |-> 0, PortfolioValue |-> [coeff |-> 5000, exp |-> 0]],
                [Date |-> 7, PortfolioValue |-> [coeff |-> 5100, exp |-> 0]]>>

RecFiles == {Absent} \cup {Table(r) : r \in SeqsUpTo(RecRows, MaxRecRows)}
RepFiles == {Absent} \cup {Table(r) : r \in SeqsUpTo(RepRows, MaxRepRows)}
ThFiles == {Absent, NotZip, BadWorkbook, Table(UserTrades)}

----------------------------------------------------------------------------
\* pandas readers.

\* pd.read_excel(path, engine="openpyxl"): FileNotFoundError when the file is
\* absent; openpyxl raises zipfile.BadZipFile on a file that is no zip
\* archive and ValueError on an archive it cannot read as a workbook.
read_excel(file) ==
    CASE file.kind = "absent" -> [exc |-> "FileNotFoundError", df |-> <<>>]
      [] file.kind = "notzip" -> [exc |-> "BadZipFile", df |-> <<>>]
      [] file.kind = "badworkbook" -> [exc |-> "ValueError", df |-> <<>>]
      [] OTHER -> [exc |-> "", df |-> file.rows]

\* pd.read_csv(path) of a well-formed file.
read_csv(file) ==
    IF file.kind = "absent"
    THEN [exc |-> "FileNotFoundError", df |-> <<>>]
    ELSE [exc |-> "", df |-> file.rows]

----------------------------------------------------------------------------
\* The fallbacks.

\* The series compounding from 1 instead of 0, as np.arange(1, 61) would.
SynthTradeHistoryFromOne(today) ==
    [i \in 1..Periods |->
        [Date |-> today - DaysBack * TicksPerDay + (i - 1) * TicksPerDay,
         PortfolioValue |-> [coeff |-> StartValue, exp |-> i]]]

\* The series compounding over the days since the epoch instead of the row index.
SynthTradeHistoryByDate(today) ==
    [i \in 1..Periods |->
        [Date |-> today - DaysBack * TicksPerDay + (i - 1) * TicksPerDay,
         PortfolioValue |-> [coeff |-> StartValue, exp |-> today + i - 1]]]

\* pd.date_range(datetime.today() - timedelta(days=60), periods=60) and
\* 100000 * (1 + 0.005) ** np.arange(60)
SynthTradeHistory(today) ==
    [i \in 1..Periods |->
        [Date |-> today - DaysBack * TicksPerDay + (i - 1) * TicksPerDay,
         PortfolioValue |-> [coeff |-> StartValue, exp |-> i - 1]]]

DemoReports ==
    [i \in 1..DemoRows |->
        [Symbol |-> DemoSymbols[i], InvScore |-> DemoScores[i],
         InvReport |-> DemoReportText]]

\* Four equal weights of 0.25 given to five symbols.
DemoRecsQuarter ==
    [i \in 1..DemoRows |-> [Symbol |-> DemoSymbols[i], Weight |-> Num(25)]]

DemoRecs ==
    [i \in 1..DemoRows |-> [Symbol |-> DemoSymbols[i], Weight |-> Num(EqualWeight)]]

----------------------------------------------------------------------------
\* The three try blocks of load_data().

\* A bare "except:" in place of "except FileNotFoundError:": every failure
\* to read the workbook is answered with the sample data.
LoadTradeHistoryBareExcept(file, today) ==
    LET r == read_excel(file) IN
    IF r.exc = "" THEN [exc |-> "", df |-> r.df, msgs |-> <<>>]
    ELSE [exc |-> "", df |-> SynthTradeHistory(today),
          msgs |-> <<"warning: trade_history.xlsx not found">>]

LoadTradeHistory(file, today) ==
    LET r == read_excel(file) IN
    CASE r.exc = "" -> [exc |-> "", df |-> r.df, msgs |-> <<>>]
      [] r.exc = "FileNotFoundError" ->
            [exc |-> "", df |-> SynthTradeHistory(today),
             msgs |-> <<"warning: trade_history.xlsx not found">>]
      [] r.exc = "ValueError" ->
            [exc |-> "ValueError", df |-> <<>>,
             msgs |-> <<"error: trade_history.xlsx is not a valid Excel file">>]
      [] OTHER -> [exc |-> r.exc, df |-> <<>>, msgs |-> <<>>]

LoadReports(file) ==
    LET r == read_csv(file) IN
    IF r.exc = "FileNotFoundError"
    THEN [df |-> DemoReports,
          msgs |-> <<"warning: stock_investment_reports.csv not found">>]
    ELSE [df |-> r.df, msgs |-> <<>>]

RECURSIVE DropDuplicates(_, _)
DropDuplicates(df, seen) ==
    IF df = <<>> THEN <<>>
    ELSE IF Head(df).Symbol \in seen THEN DropDuplicates(Tail(df), seen)
    ELSE <<Head(df)>> \o DropDuplicates(Tail(df), seen \cup {Head(df).Symbol})

\* recs.drop_duplicates("Symbol") applied to what was read.
LoadRecsDedup(file) ==
    LET r == read_csv(file) IN
    IF r.exc = "FileNotFoundError"
    THEN [df |-> DemoRecs, msgs |-> <<"warning: recommendations.csv not found">>]
    ELSE [df |-> DropDuplicates(r.df, {}), msgs |-> <<>>]

\* An empty frame in place of the equal-weight portfolio.
LoadRecsEmptyFallback(file) ==
    LET r == read_csv(file) IN
    IF r.exc = "FileNotFoundError"
    THEN [df |-> <<>>, msgs |-> <<"warning: recommendations.csv not found">>]
    ELSE [df |-> r.df, msgs |-> <<>>]

LoadRecs(file) ==
    LET r == read_csv(file) IN
    IF r.exc = "FileNotFoundError"
    THEN [df |-> DemoRecs, msgs |-> <<"warning: recommendations.csv not found">>]
    ELSE [df |-> r.df, msgs |-> <<>>]

----------------------------------------------------------------------------
\* inv_reports.merge(recs, on="Symbol", how="left")

Matches(right, sym) == SelectSeq(right, LAMBDA r : r.Symbol = sym)

JoinRow(l, w) ==
    [Symbol |-> l.Symbol, InvScore |-> l.InvScore, InvReport |-> l.InvReport,
     Weight |-> w]

\* The rows one left row gives: one per matching right row, in the right
\* table's order, or one with a NaN Weight when none matches.
JoinLeftRow(l, right) ==
    LET m == Matches(right, l.Symbol) IN
    IF m = <<>> THEN <<JoinRow(l, NaN)>>
    ELSE [k \in 1..Len(m) |-> JoinRow(l, m[k].Weight)]

\* how="inner": a left row without a match is dropped.
RECURSIVE merge_inner(_, _)
merge_inner(left, right) ==
    IF left = <<>> THEN <<>>
    ELSE LET m == Matches(right, Head(left).Symbol) IN
         [k \in 1..Len(m) |-> JoinRow(Head(left), m[k].Weight)]
            \o merge_inner(Tail(left), right)

RECURSIVE merge(_, _)
merge(left, right) ==
    IF left = <<>> THEN <<>>
    ELSE JoinLeftRow(Head(left), right) \o merge(Tail(left), right)

\* The fillna(0) left out.
fillna_skipped(df) == df

\* merged["Weight"] = merged["Weight"].fillna(0)
fillna(df) ==
    [k \in 1..Len(df) |->
        IF IsNull(df[k].Weight) THEN [df[k] EXCEPT !.Weight = Num(0)] ELSE df[k]]

----------------------------------------------------------------------------
\* load_data(): what the call returns or raises, and the messages it shows.

Raised(exc, msgs) ==
    [state |-> "raised", exc |-> exc, trade_history |-> <<>>, merged |-> <<>>,
     recs |-> <<>>, msgs |-> msgs]

load_data(th, rep, rec, today) ==
    LET t == LoadTradeHistory(th, today) IN
    IF t.exc # "" THEN Raised(t.exc, t.msgs)
    ELSE LET inv_reports == LoadReports(rep)
             recs == LoadRecs(rec)
         IN [state |-> "returned", exc |-> "",
             trade_history |-> t.df,
             merged |-> fillna(merge(inv_reports.df, recs.df)),
             recs |-> recs.df,
             msgs |-> t.msgs \o inv_reports.msgs \o recs.msgs]

NotCalled ==
    [state |-> "notcalled", exc |-> "", trade_history |-> <<>>, merged |-> <<>>,
     recs |-> <<>>, msgs |-> <<>>]

NoCache == NotCalled

Call(ret, today) == [today |-> today, ret |-> ret]

----------------------------------------------------------------------------
\* Uncached runs of load_data() over sources that stay as they are.

Init ==
    /\ thFile \in ThFiles
    /\ repFile \in RepFiles
    /\ recFile \in RecFiles
    /\ now = 0
    /\ cache = NoCache
    /\ out = Call(NotCalled, 0)
    /\ prev = Call(NotCalled, 0)
    /\ didRead = FALSE

\* One run of load_data() with nothing cached.
Run ==
    /\ out' = Call(load_data(thFile, repFile, recFile, now), now)
    /\ prev' = out
    /\ didRead' = TRUE
    /\ UNCHANGED <<thFile, repFile, recFile, now, cache>>

\* Time passes.
Tick ==
    /\ now < MaxNow
    /\ now' = now + 1
    /\ UNCHANGED <<thFile, repFile, recFile, cache, out, prev, didRead>>

Next == Run \/ Tick

Spec == Init /\ [][Next]_vars

----------------------------------------------------------------------------
\* A session of the dashboard: every render runs line 76, the call of
\* load_data() through st.cache_data, while the source files come and go.

SessionThFiles == {Absent, BadWorkbook, Table(UserTrades)}
SessionRepFiles ==
    {Absent, Table(<<[Symbol |-> "AAPL", InvScore |-> 90, InvReport |-> "report"]>>)}
SessionRecFiles ==
    {Absent, Table(<<[Symbol |-> "AAPL", Weight |-> Num(60)],
                     [Symbol |-> "MSFT", Weight |-> Num(40)]>>)}

SessionInit ==
    /\ thFile \in SessionThFiles
    /\ repFile \in SessionRepFiles
    /\ recFile \in SessionRecFiles
    /\ now = 0
    /\ cache = NoCache
    /\ out = Call(NotCalled, 0)
    /\ prev = Call(NotCalled, 0)
    /\ didRead = FALSE

\* A render that ignores the cache.
RenderUncached ==
    LET r == load_data(thFile, repFile, recFile, now) IN
    /\ out' = Call(r, now)
    /\ didRead' = TRUE
    /\ cache' = IF r.state = "returned" THEN r ELSE cache
    /\ UNCHANGED <<thFile, repFile, recFile, now, prev>>

\* trade_history, merged, recs = load_data() under @st.cache_data: a stored
\* result is returned as it is; otherwise the function runs and its result is
\* stored, unless it raises.
Render ==
    IF cache # NoCache
    THEN /\ out' = Call(cache, now)
         /\ didRead' = FALSE
         /\ UNCHANGED <<thFile, repFile, recFile, now, cache, prev>>
    ELSE LET r == load_data(thFile, repFile, recFile, now) IN
         /\ out' = Call(r, now)
         /\ didRead' = TRUE
         /\ cache' = IF r.state = "returned" THEN r ELSE NoCache
         /\ UNCHANGED <<thFile, repFile, recFile, now, prev>>

\* st.cache_data.clear(), or "Clear cache" in the app's menu.
ClearCache ==
    /\ cache # NoCache
    /\ cache' = NoCache
    /\ UNCHANGED <<thFile, repFile, recFile, now, out, prev, didRead>>

\* A source file is created, replaced or deleted outside the program.
ChangeTradeHistory ==
    /\ \E f \in SessionThFiles \ {thFile} : thFile' = f
    /\ UNCHANGED <<repFile, recFile, now, cache, out, prev, didRead>>

ChangeReports ==
    /\ \E f \in SessionRepFiles \ {repFile} : repFile' = f
    /\ UNCHANGED <<thFile, recFile, now, cache, out, prev, didRead>>

ChangeRecs ==
    /\ \E f \in SessionRecFiles \ {recFile} : recFile' = f
    /\ UNCHANGED <<thFile, repFile, now, cache, out, prev, didRead>>

SessionNext ==
    Render \/ ClearCache \/ ChangeTradeHistory \/ ChangeReports \/ ChangeRecs \/ Tick

SessionSpec == SessionInit /\ [][SessionNext]_vars

----------------------------------------------------------------------------
\* Properties of load_data().

ret == out.ret
Called == ret.state # "notcalled"
Returned == ret.state = "returned"

Symbols(df) == {df[k].Symbol : k \in 1..Len(df)}
NoNaN(df) == \A k \in 1..Len(df) : ~IsNull(df[k].Weight)

RECURSIVE SumWeights(_)
SumWeights(df) ==
    IF df = <<>> THEN 0
    ELSE (IF IsNull(Head(df).Weight) THEN 0 ELSE Head(df).Weight[1])
            + SumWeights(Tail(df))

\* The Weights the source gives a Symbol.
SourceWeights(df, sym) == {df[k].Weight : k \in {j \in 1..Len(df) : df[j].Symbol = sym}}

Holdings(df) == [k \in 1..Len(df) |-> <<df[k].Symbol, df[k].Weight>>]

\* C1: whichever of the three sources are absent, the others being non-empty
\* tables, load_data() returns, and each of the three datasets has a row.
C1_AlwaysThreeNonEmpty ==
    (Called /\ thFile.kind \in {"absent", "table"}) =>
        /\ Returned
        /\ Len(ret.trade_history) >= 1
        /\ Len(ret.merged) >= 1
        /\ Len(ret.recs) >= 1

\* Reports are present and recommendations absent, so that the recommendations
\* are the fallback and no report has a match among them.
C1_Witness ==
    /\ Returned
    /\ thFile.kind = "table" /\ repFile.kind = "table" /\ recFile.kind = "absent"
    /\ Symbols(repFile.rows) = {"TSLA"}
    /\ Len(ret.merged) >= 1 /\ Len(ret.recs) >= 1

\* C2: the merged holdings have as many rows as the investment reports.
C2_RowCountPreserved ==
    Returned => Len(ret.merged) = Len(LoadReports(repFile).df)

\* C3 as stated: every merged Weight is not null and >= 0, and is 0 when the
\* Symbol has no recommendation.
C3_WeightNonNegative ==
    Returned =>
        \A k \in 1..Len(ret.merged) :
            /\ ~IsNull(ret.merged[k].Weight)
            /\ ret.merged[k].Weight[1] >= 0
            /\ ret.merged[k].Symbol \notin Symbols(ret.recs)
                    => ret.merged[k].Weight = Num(0)

\* C3 amended: every merged Weight is not null; it is 0 when the Symbol has no
\* recommendation, and otherwise it is a Weight the recommendations give that
\* Symbol (0 for a null one), so it is >= 0 when no recommendation is negative.
C3_WeightFromRecommendation ==
    Returned =>
        \A k \in 1..Len(ret.merged) :
            LET row == ret.merged[k]
                src == SourceWeights(ret.recs, row.Symbol)
            IN /\ ~IsNull(row.Weight)
               /\ row.Symbol \notin Symbols(ret.recs) => row.Weight = Num(0)
               /\ row.Symbol \in Symbols(ret.recs) =>
                    \/ row.Weight \in src
                    \/ row.Weight = Num(0) /\ NaN \in src
               /\ (\A j \in 1..Len(ret.recs) :
                        IsNull(ret.recs[j].Weight) \/ ret.recs[j].Weight[1] >= 0)
                    => row.Weight[1] >= 0

\* A holding without a recommendation next to one whose recommendation is
\* negative, and one whose recommendation is null.
C3_Witness ==
    /\ Returned
    /\ \E k \in 1..Len(ret.merged) : ret.merged[k].Symbol \notin Symbols(ret.recs)
    /\ \E k \in 1..Len(ret.merged) : ret.merged[k].Weight = Num(-10)
    /\ \E j \in 1..Len(ret.recs) :
            /\ IsNull(ret.recs[j].Weight)
            /\ ret.recs[j].Symbol \in Symbols(ret.merged)

\* C4: a malformed trade_history.xlsx makes load_data() raise: nothing is
\* returned and no sample trade history is made, whatever the other sources.
C4_MalformedTradeHistoryRaises ==
    (Called /\ thFile.kind \in {"notzip", "badworkbook"}) =>
        /\ ret.state = "raised"
        /\ ret.exc \in {"ValueError", "BadZipFile"}
        /\ ret.trade_history = <<>> /\ ret.merged = <<>> /\ ret.recs = <<>>
        /\ \A i \in 1..Len(ret.msgs) : ret.msgs[i] # "warning: trade_history.xlsx not found"

C4_Witness ==
    /\ thFile.kind = "badworkbook"
    /\ repFile.kind = "absent" /\ recFile.kind = "table"
    /\ ret.state = "raised" /\ ret.exc = "ValueError"

\* C6: with only recommendations.csv present, giving AAPL 0.6 and MSFT 0.4,
\* the merged holdings are the five demo symbols with 0.6, 0.4, 0, 0, 0.
OnlyRecs ==
    /\ thFile.kind = "absent" /\ repFile.kind = "absent"
    /\ recFile = Table(<<[Symbol |-> "AAPL", Weight |-> Num(60)],
                         [Symbol |-> "MSFT", Weight |-> Num(40)]>>)

C6_OnlyRecommendationsPresent ==
    (Called /\ OnlyRecs) =>
        /\ Returned
        /\ Holdings(ret.merged) =
                <<<<"AAPL", Num(60)>>, <<"MSFT", Num(40)>>, <<"NVDA", Num(0)>>,
                  <<"AMZN", Num(0)>>, <<"META", Num(0)>>>>

C6_Witness == Returned /\ OnlyRecs /\ Len(ret.merged) = 5

\* C7: with no source present, the trade history has 60 rows and starts at
\* 100000, and the merged holdings are the five demo symbols, each with a
\* non-zero Weight, the Weights summing to 1.0.
NoSources ==
    thFile.kind = "absent" /\ repFile.kind = "absent" /\ recFile.kind = "absent"

C7_NoSourcePresent ==
    (Called /\ NoSources) =>
        /\ Returned
        /\ Len(ret.trade_history) = 60
        /\ ret.trade_history[1].PortfolioValue = [coeff |-> 100000, exp |-> 0]
        /\ Len(ret.merged) = 5
        /\ [k \in 1..5 |-> ret.merged[k].Symbol] = DemoSymbols
        /\ \A k \in 1..5 :
                ~IsNull(ret.merged[k].Weight) /\ ret.merged[k].Weight[1] # 0
        /\ SumWeights(ret.merged) = 100

C7_Witness == Returned /\ NoSources /\ Len(ret.msgs) = 3

\* C8: the sample trade history has 60 rows, Dates one day apart from 60 days
\* before today, and PortfolioValue 100000 x 1.005^i at index i, each the
\* one before it times 1.005.
C8_SampleTradeHistory ==
    (Called /\ thFile.kind = "absent") =>
        LET th == ret.trade_history IN
        /\ Len(th) = 60
        /\ th[1].Date = out.today - 60 * TicksPerDay
        /\ \A i \in 1..59 :
            /\ th[i + 1].Date = th[i].Date + TicksPerDay
            /\ th[i + 1].PortfolioValue.coeff = th[i].PortfolioValue.coeff
            /\ th[i + 1].PortfolioValue.exp = th[i].PortfolioValue.exp + 1
        /\ \A i \in 1..60 :
            th[i].PortfolioValue = [coeff |-> 100000, exp |-> i - 1]

\* A sample made later than the clock's start, other sources present.
C8_Witness ==
    /\ Returned /\ thFile.kind = "absent" /\ repFile.kind = "table"
    /\ out.today > 0
    /\ Len(ret.trade_history) = 60

\* C9: recommendations whose Weights sum to 1.0 are returned as they are, and
\* a merged holding with a recommendation has a Weight the source gives it.
SumsToOne ==
    recFile.kind = "table" /\ NoNaN(recFile.rows) /\ SumWeights(recFile.rows) = 100

C9_NoRenormalization ==
    (Returned /\ SumsToOne) =>
        /\ ret.recs = recFile.rows
        /\ SumWeights(ret.recs) = 100
        /\ \A k \in 1..Len(ret.merged) :
            ret.merged[k].Symbol \in Symbols(recFile.rows) =>
                ret.merged[k].Weight
                    \in SourceWeights(recFile.rows, ret.merged[k].Symbol)

\* One Symbol listed twice, 0.4 and 0.6, and held.
C9_Witness ==
    /\ Returned /\ SumsToOne
    /\ Len(recFile.rows) = 2 /\ Cardinality(Symbols(recFile.rows)) = 1
    /\ \E k \in 1..Len(ret.merged) : ret.merged[k].Weight = Num(60)

\* C10 as stated: two runs over the same sources return the same.
BothCalled == prev.ret.state # "notcalled" /\ Called

C10_PureFunctionOfSources == BothCalled => prev.ret = ret

\* C10 amended: two runs over the same sources end the same way with the same
\* merged holdings, recommendations and PortfolioValues; the whole result is
\* the same when trade_history.xlsx is present or both runs read the same
\* clock, and otherwise the sample Dates differ by the time between the runs.
C10_PureButForSampleDates ==
    BothCalled =>
        /\ prev.ret.state = ret.state /\ prev.ret.exc = ret.exc
        /\ prev.ret.merged = ret.merged
        /\ prev.ret.recs = ret.recs
        /\ prev.ret.msgs = ret.msgs
        /\ Len(prev.ret.trade_history) = Len(ret.trade_history)
        /\ \A i \in 1..Len(ret.trade_history) :
            /\ prev.ret.trade_history[i].PortfolioValue
                    = ret.trade_history[i].PortfolioValue
            /\ thFile.kind = "absent" =>
                    ret.trade_history[i].Date - prev.ret.trade_history[i].Date
                        = out.today - prev.today
        /\ (thFile.kind # "absent" \/ prev.today = out.today) => prev.ret = ret

C10_Witness ==
    /\ BothCalled /\ Returned
    /\ thFile.kind = "absent" /\ prev.today # out.today
    /\ prev.ret # ret

----------------------------------------------------------------------------
\* Properties of the session.

\* C5: while a result is stored, a render returns it without reading the
\* sources and leaves it stored, and nothing but clearing the cache ends that.
C5_CachedUntilCleared ==
    [][cache # NoCache =>
            /\ Render => (out'.ret = cache /\ ~didRead' /\ cache' = cache)
            /\ cache' # cache => ClearCache]_vars

\* A render answered from the cache although the sources would now resolve
\* to something else.
C5_Witness ==
    /\ cache # NoCache /\ ~didRead /\ out.ret = cache
    /\ load_data(thFile, repFile, recFile, now).merged # cache.merged

====
